---------------------------- MODULE Spec2Model ----------------------------
(***************************************************************************)
(* A model of blcch.py: the Block class (canonical hashing and the         *)
(* proof-of-work nonce search) and the Blockchain class (pending pool,     *)
(* mining of pending transactions, chain validation).                      *)
(*                                                                         *)
(* Python values are represented as follows.                               *)
(*   - a transaction record (a str) is one of the strings of Records;      *)
(*   - a timestamp is <<"datetime", t>> (the datetime object whose text    *)
(*     is t) or <<"str", t>> (the str object whose text is t);             *)
(*   - a SHA-256 hex digest is the pair <<p, bytes>>: SHA-256 is a         *)
(*     black-box collision-free primitive, so the digest determines the    *)
(*     bytes hashed; p stands for the digest's leading hex digits, with    *)
(*     p = 0 for the digits "00";                                          *)
(*   - the str "0" (the genesis previous_hash) is Zero;                    *)
(*   - a Python bool or exception outcome of a call is a string ("True",   *)
(*     "False", "None", "IndexError").                                     *)
(* Python positions are 0-based, TLA+ sequences 1-based: chain[i] of the   *)
(* code is chain[i + 1] here; the stored field index keeps Python's value. *)
(***************************************************************************)
EXTENDS Integers, Sequences, FiniteSets, TLC

VARIABLES
    chain,                 \* Blockchain.chain: the list of Block objects
    pending_transactions,  \* Blockchain.pending_transactions
    lastOp,                \* the operation that took the last step
    ret,                   \* what that operation returned (or raised)
    added,                 \* history: every record passed to add_transaction
    tampers,               \* history: direct mutations of stored blocks so far
    blk,                   \* <<b>>: the Block a caller is constructing or has
                           \* constructed on its own; <<>>: none yet
    pc,                    \* where that construction stands
    earlier,               \* <<b>>: the Block the construction before returned
    heap,                  \* the list objects: heap[id] is the content of list id
    pool_id,               \* the list self.pending_transactions is bound to
    tx_ids,                \* tx_ids[i]: the list chain[i].transactions is bound to
    mpc,                   \* where a mine_pending_transactions call run
                           \* statement by statement stands
    late,                  \* history: the records added while such a call
                           \* was between its pool copy and its pool reset
    successes              \* history: mine_pending_transactions calls that
                           \* returned True

vars == <<chain, pending_transactions, lastOp, ret, added, tampers,
          blk, pc, earlier, heap, pool_id, tx_ids, mpc, late, successes>>

\* the state of a Block construction outside the Blockchain
standalone == <<blk, pc, earlier>>

\* the list objects and the names bound to them
lists == <<heap, pool_id, tx_ids>>

---------------------------------------------------------------------------
(* Bounds and value domains *)

\* add_transaction calls in one behaviour
MaxAdds == 2

\* direct mutations of stored blocks in one behaviour (SpecTamper)
MaxTamper == 2

\* the digest's leading digits range over 0 .. Difficulty - 1; 0 is "00"
Difficulty == 3

\* the clock readings datetime.datetime.now() may return
Times == {1, 2}

\* whether every block has a nonce whose digest starts with "00" is not
\* known of SHA-256: the clock readings of HardTimes stand for timestamps
\* with which a block has none
HardTimes == {0}

\* the nonce up to which the model follows a search that does not end
MaxNonce == 4

\* the records callers pass to add_transaction
Records == {"a", "b"}

\* the str "0"
Zero == <<-1, <<>>>>

---------------------------------------------------------------------------
(* Block: canonical encoding, hashing, mining *)

\* str(x) of a timestamp value: a datetime prints its text, a str is itself
Str(ts) == ts[2]

RECURSIVE RecordSum(_)
\* the contribution of the transactions' bytes to the digest's leading digits
RecordSum(txs) ==
    IF txs = <<>> THEN 0
    ELSE (IF Head(txs) = "a" THEN 1 ELSE 2) + 2 * RecordSum(Tail(txs))

\* json.dumps({...}, sort_keys=True): the five fields in key order
\* index, nonce, previous_hash, timestamp, transactions; the timestamp
\* enters as str(timestamp)
Encode(b) ==
    <<b.index, b.nonce, b.previous_hash, Str(b.timestamp), b.transactions>>

\* the contribution of the previous_hash text to the digest's leading digits
HashSum(h) == IF h = Zero THEN 0 ELSE 1 + h[1] + h[2][2] + h[2][4]

\* the leading hex digits of sha256(bytes)
Leading(bytes) ==
    IF bytes[4] \in HardTimes THEN 1
    ELSE (bytes[1] + bytes[2] + HashSum(bytes[3]) + 2 * bytes[4]
            + RecordSum(bytes[5])) % Difficulty

\* hashlib.sha256(bytes).hexdigest()
Sha256(bytes) == <<Leading(bytes), bytes>>

\* hash.startswith("00")
StartsWith00(h) == h[1] = 0

calculate_hash(b) == Sha256(Encode(b))

\* mutant of MineLoop: "if" for "while", one retry and no more
MineLoop_OneRetry(b) ==
    IF StartsWith00(b.hash) THEN b
    ELSE LET n == [b EXCEPT !.nonce = b.nonce + 1]
         IN  [n EXCEPT !.hash = calculate_hash(n)]

RECURSIVE MineLoop(_)
\* the while loop of mine_block
MineLoop(b) ==
    IF StartsWith00(b.hash) THEN b
    ELSE LET n == [b EXCEPT !.nonce = b.nonce + 1]
         IN  MineLoop([n EXCEPT !.hash = calculate_hash(n)])

\* Block.mine_block: the block after the call (self.hash is what it returns)
mine_block(b) == MineLoop([b EXCEPT !.hash = calculate_hash(b)])

\* Block.__init__
Block(index, timestamp, transactions, previous_hash) ==
    mine_block([index |-> index,
                timestamp |-> timestamp,
                transactions |-> transactions,
                previous_hash |-> previous_hash,
                nonce |-> 0,
                hash |-> Zero])

---------------------------------------------------------------------------
(* Blockchain *)

\* datetime.datetime.now()
Now == {<<"datetime", t>> : t \in Times}

create_genesis_block(now) == Block(0, now, <<>>, Zero)

\* mutant of validate_chain: the linkage test left out
validate_chain_NoLinkCheck(c) ==
    IF Len(c) = 0 THEN "IndexError"
    ELSE IF \/ c[1].index # 0
            \/ c[1].previous_hash # Zero
            \/ c[1].hash # calculate_hash(c[1])
            \/ ~StartsWith00(c[1].hash)
         THEN "False"
    ELSE IF \E i \in 2..Len(c) :
                \/ c[i].hash # calculate_hash(c[i])
                \/ ~StartsWith00(c[i].hash)
         THEN "False"
    ELSE "True"

\* Blockchain.validate_chain: "True", "False", or the IndexError that
\* self.chain[0] raises on an empty list
validate_chain(c) ==
    IF Len(c) = 0 THEN "IndexError"
    ELSE IF \/ c[1].index # 0
            \/ c[1].previous_hash # Zero
            \/ c[1].hash # calculate_hash(c[1])
            \/ ~StartsWith00(c[1].hash)
         THEN "False"
    ELSE IF \E i \in 2..Len(c) :
                \/ c[i].hash # calculate_hash(c[i])
                \/ c[i].previous_hash # c[i-1].hash
                \/ ~StartsWith00(c[i].hash)
         THEN "False"
    ELSE "True"

Init ==
    /\ \E now \in Now : chain = <<create_genesis_block(now)>>
    /\ pending_transactions = <<>>
    /\ lastOp = "Blockchain"
    /\ ret = "None"
    /\ added = <<>>
    /\ tampers = <<>>
    /\ blk = <<>>
    /\ pc = "idle"
    /\ earlier = <<>>
    /\ heap = <<<<>>, <<>>>>
    /\ tx_ids = <<1>>
    /\ pool_id = 2
    /\ mpc = "idle"
    /\ late = <<>>
    /\ successes = 0

\* mutant of add_transaction: insert(0, transaction) for append(transaction)
add_transaction_Prepends(transaction) ==
    /\ Len(added) < MaxAdds
    /\ pending_transactions' = <<transaction>> \o pending_transactions
    /\ added' = Append(added, transaction)
    /\ lastOp' = "add_transaction"
    /\ ret' = "None"
    /\ late' = IF mpc = "idle" THEN late ELSE Append(late, transaction)
    /\ UNCHANGED <<chain, tampers, standalone, lists, mpc, successes>>

add_transaction(transaction) ==
    /\ Len(added) < MaxAdds
    /\ pending_transactions' = Append(pending_transactions, transaction)
    /\ added' = Append(added, transaction)
    /\ lastOp' = "add_transaction"
    /\ ret' = "None"
    /\ late' = IF mpc = "idle" THEN late ELSE Append(late, transaction)
    /\ UNCHANGED <<chain, tampers, standalone, lists, mpc, successes>>

\* mutant of MineEmptyPool: the emptiness test left out, so that a block
\* with no transactions is mined
MineEmptyPool_MinesAnyway ==
    /\ pending_transactions = <<>>
    /\ Len(chain) > 0
    /\ \E now \in Now :
          chain' = Append(chain, Block(Len(chain), now, pending_transactions,
                                       chain[Len(chain)].hash))
    /\ pending_transactions' = <<>>
    /\ lastOp' = "mine_pending_transactions"
    /\ ret' = "True"
    /\ successes' = successes + 1
    /\ UNCHANGED <<added, tampers, standalone, lists, mpc, late>>

\* mine_pending_transactions, the pool empty: return False
MineEmptyPool ==
    /\ pending_transactions = <<>>
    /\ lastOp' = "mine_pending_transactions"
    /\ ret' = "False"
    /\ UNCHANGED <<chain, pending_transactions, added, tampers, standalone,
                   lists, mpc, late, successes>>

\* mutant of MineBlock: previous_hash taken from chain[0], not chain[-1]
MineBlock_LinksToFirst(now) ==
    /\ pending_transactions # <<>>
    /\ Len(chain) > 0
    /\ chain' = Append(chain, Block(Len(chain), now, pending_transactions,
                                    chain[1].hash))
    /\ pending_transactions' = <<>>
    /\ lastOp' = "mine_pending_transactions"
    /\ ret' = "True"
    /\ successes' = successes + 1
    /\ UNCHANGED <<added, tampers, standalone, lists, mpc, late>>

\* mutant of MineBlock: the pool is not cleared
MineBlock_KeepsPool(now) ==
    /\ pending_transactions # <<>>
    /\ Len(chain) > 0
    /\ Len(chain) <= MaxAdds
    /\ chain' = Append(chain, Block(Len(chain), now, pending_transactions,
                                    chain[Len(chain)].hash))
    /\ pending_transactions' = pending_transactions
    /\ lastOp' = "mine_pending_transactions"
    /\ ret' = "True"
    /\ successes' = successes + 1
    /\ UNCHANGED <<added, tampers, standalone, lists, mpc, late>>

\* mutant of MineBlock: chain[-1] = new_block for chain.append(new_block)
MineBlock_OverwritesLast(now) ==
    /\ pending_transactions # <<>>
    /\ Len(chain) > 0
    /\ chain' = [chain EXCEPT ![Len(chain)] =
                    Block(Len(chain), now, pending_transactions,
                          chain[Len(chain)].hash)]
    /\ pending_transactions' = <<>>
    /\ lastOp' = "mine_pending_transactions"
    /\ ret' = "True"
    /\ successes' = successes + 1
    /\ UNCHANGED <<added, tampers, standalone, lists, mpc, late>>

\* mutant of MineBlock: index counted from 1
MineBlock_IndexFromOne(now) ==
    /\ pending_transactions # <<>>
    /\ Len(chain) > 0
    /\ chain' = Append(chain, Block(Len(chain) + 1, now, pending_transactions,
                                    chain[Len(chain)].hash))
    /\ pending_transactions' = <<>>
    /\ lastOp' = "mine_pending_transactions"
    /\ ret' = "True"
    /\ successes' = successes + 1
    /\ UNCHANGED <<added, tampers, standalone, lists, mpc, late>>

\* mine_pending_transactions, the pool not empty: build, append, clear
MineBlock(now) ==
    /\ pending_transactions # <<>>
    /\ Len(chain) > 0
    /\ chain' = Append(chain, Block(Len(chain), now, pending_transactions,
                                    chain[Len(chain)].hash))
    /\ pending_transactions' = <<>>
    /\ lastOp' = "mine_pending_transactions"
    /\ ret' = "True"
    /\ successes' = successes + 1
    /\ UNCHANGED <<added, tampers, standalone, lists, mpc, late>>

mine_pending_transactions ==
    \/ MineEmptyPool
    \/ \E now \in Now : MineBlock(now)

\* mutant of ValidateChain: the hashes are re-derived with mine_block(),
\* which stores what it computes, for calculate_hash()
ValidateChain_Remines ==
    /\ lastOp' = "validate_chain"
    /\ ret' = validate_chain(chain)
    /\ chain' = [i \in 1..Len(chain) |-> mine_block(chain[i])]
    /\ UNCHANGED <<pending_transactions, added, tampers, standalone,
                   lists, mpc, late, successes>>

ValidateChain ==
    /\ lastOp' = "validate_chain"
    /\ ret' = validate_chain(chain)
    /\ UNCHANGED <<chain, pending_transactions, added, tampers, standalone,
                   lists, mpc, late, successes>>

Next ==
    \/ \E transaction \in Records : add_transaction(transaction)
    \/ mine_pending_transactions
    \/ ValidateChain

Spec == Init /\ [][Next]_vars

---------------------------------------------------------------------------
(* Direct mutation of stored blocks: the chain is a public list of objects *)
(* with public attributes, as the tamper test of the script uses it.       *)

\* the values a timestamp attribute may be given
TimestampValues == {<<k, t>> : k \in {"datetime", "str"}, t \in Times}

\* the lists a transactions attribute may be turned into: one element
\* overwritten (transactions[k] = r) or one appended
TamperedTransactions(txs) ==
    {[txs EXCEPT ![k] = r] : k \in 1..Len(txs), r \in Records}
        \cup {Append(txs, r) : r \in Records}

\* the hash strings at hand: "0" and the stored hashes of the chain
KnownHashes == {Zero} \cup {chain[j].hash : j \in 1..Len(chain)}

\* bc.chain[i-1].<field> = v, v different from the stored value
Tamper(i, field, v) ==
    /\ Len(tampers) < MaxTamper
    /\ i \in 1..Len(chain)
    /\ v # chain[i][field]
    /\ chain' = [chain EXCEPT ![i][field] = v]
    /\ tampers' = Append(tampers, <<field, i - 1>>)
    /\ lastOp' = "tamper"
    /\ ret' = "None"
    /\ UNCHANGED <<pending_transactions, added, standalone,
                   lists, mpc, late, successes>>

TamperTransactions ==
    \E i \in 1..Len(chain) :
        \E v \in TamperedTransactions(chain[i].transactions) :
            Tamper(i, "transactions", v)

TamperNonce ==
    \E i \in 1..Len(chain) : \E v \in 0..Difficulty : Tamper(i, "nonce", v)

TamperPreviousHash ==
    \E i \in 1..Len(chain) : \E v \in KnownHashes :
        Tamper(i, "previous_hash", v)

TamperTimestamp ==
    \E i \in 1..Len(chain) : \E v \in TimestampValues :
        Tamper(i, "timestamp", v)

TamperIndex ==
    \E i \in 1..Len(chain) : \E v \in 0..Len(chain) : Tamper(i, "index", v)

\* the stored hash overwritten: by a known hash, or by the digest of the
\* block's current fields (a forged block that was not mined)
TamperHash ==
    \E i \in 1..Len(chain) :
        \E v \in KnownHashes \cup {calculate_hash(chain[i])} :
            Tamper(i, "hash", v)

\* bc.chain[i-1].mine_block(): the search resumes from the stored nonce
Remine ==
    \E i \in 1..Len(chain) :
        /\ Len(tampers) < MaxTamper
        /\ mine_block(chain[i]) # chain[i]
        /\ chain' = [chain EXCEPT ![i] = mine_block(chain[i])]
        /\ tampers' = Append(tampers, <<"mine_block", i - 1>>)
        /\ lastOp' = "tamper"
        /\ ret' = "None"
        /\ UNCHANGED <<pending_transactions, added, standalone,
                   lists, mpc, late, successes>>

\* bc.chain.pop()
PopBlock ==
    /\ Len(tampers) < MaxTamper
    /\ Len(chain) > 0
    /\ chain' = SubSeq(chain, 1, Len(chain) - 1)
    /\ tampers' = Append(tampers, <<"pop", Len(chain) - 1>>)
    /\ lastOp' = "tamper"
    /\ ret' = "None"
    /\ UNCHANGED <<pending_transactions, added, standalone,
                   lists, mpc, late, successes>>

\* bc.chain[i], bc.chain[j] = bc.chain[j], bc.chain[i] for two blocks
\* after the genesis block
SwapBlocks ==
    \E i \in 2..Len(chain) : \E j \in (i + 1)..Len(chain) :
        /\ Len(tampers) < MaxTamper
        /\ chain' = [chain EXCEPT ![i] = chain[j], ![j] = chain[i]]
        /\ tampers' = Append(tampers, <<"swap", i - 1>>)
        /\ lastOp' = "tamper"
        /\ ret' = "None"
        /\ UNCHANGED <<pending_transactions, added, standalone,
                       lists, mpc, late, successes>>

TamperNext ==
    \/ SwapBlocks
    \/ TamperTransactions
    \/ TamperNonce
    \/ TamperPreviousHash
    \/ TamperTimestamp
    \/ TamperIndex
    \/ TamperHash
    \/ Remine
    \/ PopBlock

NextTamper == Next \/ TamperNext

SpecTamper == Init /\ [][NextTamper]_vars

\* the mutations of the tamper test and of a forger who re-mines: stored
\* transactions changed, mine_block re-run on a stored block, blocks swapped
NextForge ==
    \/ Next
    \/ TamperTransactions
    \/ Remine
    \/ SwapBlocks

SpecForge == Init /\ [][NextForge]_vars

---------------------------------------------------------------------------
(* Block(...) called by a caller of its own, statement by statement, while *)
(* the Blockchain goes on: pc is "idle" (no call yet), "mine_block" (the   *)
(* fields are set, mine_block is about to run), "while" (at the loop test) *)
(* or "returned".                                                          *)

\* the constructor arguments a block was built from
ArgsOf(b) == <<b.index, b.timestamp, b.transactions, b.previous_hash>>

\* the arguments callers pass: those of the blocks of the chain, and new ones
BlockArgs ==
    {ArgsOf(chain[i]) : i \in 1..Len(chain)}
        \cup {<<i, now, txs, Zero>> :
                 i \in {0, 1}, now \in Now, txs \in {<<>>, <<"a">>}}

\* mutant of BlockNew: nonce is not reset, it carries on from the block
\* constructed before
BlockNew_KeepsNonce(args) ==
    /\ pc \in {"idle", "returned"}
    /\ blk' = <<[index |-> args[1],
                 timestamp |-> args[2],
                 transactions |-> args[3],
                 previous_hash |-> args[4],
                 nonce |-> IF blk = <<>> THEN 0 ELSE blk[1].nonce,
                 hash |-> Zero]>>
    /\ earlier' = blk
    /\ pc' = "mine_block"
    /\ UNCHANGED <<chain, pending_transactions, lastOp, ret, added, tampers,
                   lists, mpc, late, successes>>

\* Block.__init__ up to self.nonce = 0; the hash attribute is not set yet
BlockNew(args) ==
    /\ pc \in {"idle", "returned"}
    /\ blk' = <<[index |-> args[1],
                 timestamp |-> args[2],
                 transactions |-> args[3],
                 previous_hash |-> args[4],
                 nonce |-> 0,
                 hash |-> Zero]>>
    /\ earlier' = blk
    /\ pc' = "mine_block"
    /\ UNCHANGED <<chain, pending_transactions, lastOp, ret, added, tampers,
                   lists, mpc, late, successes>>

\* mine_block: self.hash = self.calculate_hash()
MineFirstHash ==
    /\ pc = "mine_block"
    /\ blk' = <<[blk[1] EXCEPT !.hash = calculate_hash(blk[1])]>>
    /\ pc' = "while"
    /\ UNCHANGED <<chain, pending_transactions, lastOp, ret, added, tampers,
                   earlier, lists, mpc, late, successes>>

\* mutant of MineIterate: self.nonce += 2
MineIterate_SkipsOne ==
    /\ pc = "while"
    /\ ~StartsWith00(blk[1].hash)
    /\ LET n == [blk[1] EXCEPT !.nonce = blk[1].nonce + 2]
       IN  blk' = <<[n EXCEPT !.hash = calculate_hash(n)]>>
    /\ UNCHANGED <<chain, pending_transactions, lastOp, ret, added, tampers,
                   pc, earlier, lists, mpc, late, successes>>

\* mine_block: one turn of the loop, self.nonce += 1 and the hash again
MineIterate ==
    /\ pc = "while"
    /\ ~StartsWith00(blk[1].hash)
    /\ blk[1].nonce < MaxNonce
    /\ LET n == [blk[1] EXCEPT !.nonce = blk[1].nonce + 1]
       IN  blk' = <<[n EXCEPT !.hash = calculate_hash(n)]>>
    /\ UNCHANGED <<chain, pending_transactions, lastOp, ret, added, tampers,
                   pc, earlier, lists, mpc, late, successes>>

\* mutant of MineReturn: the search gives up after two attempts and
\* returns the hash it has
MineReturn_GivesUp ==
    /\ pc = "while"
    /\ StartsWith00(blk[1].hash) \/ blk[1].nonce >= 1
    /\ pc' = "returned"
    /\ UNCHANGED <<chain, pending_transactions, lastOp, ret, added, tampers,
                   blk, earlier, lists, mpc, late, successes>>

\* mine_block: the loop test fails, return self.hash; __init__ returns
MineReturn ==
    /\ pc = "while"
    /\ StartsWith00(blk[1].hash)
    /\ pc' = "returned"
    /\ UNCHANGED <<chain, pending_transactions, lastOp, ret, added, tampers,
                   blk, earlier, lists, mpc, late, successes>>

NextMiner ==
    \/ Next
    \/ \E args \in BlockArgs : BlockNew(args)
    \/ MineFirstHash
    \/ MineIterate
    \/ MineReturn

SpecMiner == Init /\ [][NextMiner]_vars

---------------------------------------------------------------------------
(* mine_pending_transactions run statement by statement, the Block it      *)
(* constructs being blk, while a second caller may call add_transaction    *)
(* and validate_chain between any two of its steps. mpc is "idle" (no call *)
(* in progress), "Block" (the pool is copied into the new Block, whose     *)
(* __init__ is running or has returned) or "appended" (the block is in the *)
(* chain, the pool is not yet reset).                                      *)

\* datetime.datetime.now(), the readings of HardTimes included
NowOrHard == Now \cup {<<"datetime", t>> : t \in HardTimes}

\* lines 121-129 with Block.__init__ up to self.nonce = 0: the pool is not
\* empty, the arguments are read and the pool is copied into the block
MineCall(now) ==
    /\ mpc = "idle"
    /\ pc \in {"idle", "returned"}
    /\ pending_transactions # <<>>
    /\ Len(chain) > 0
    /\ blk' = <<[index |-> Len(chain),
                 timestamp |-> now,
                 transactions |-> pending_transactions,
                 previous_hash |-> chain[Len(chain)].hash,
                 nonce |-> 0,
                 hash |-> Zero]>>
    /\ pc' = "mine_block"
    /\ mpc' = "Block"
    /\ UNCHANGED <<chain, pending_transactions, lastOp, ret, added, tampers,
                   earlier, lists, late, successes>>

\* mutant of MineAppend: the pool is reset before the block is appended
MineAppend_ResetsFirst ==
    /\ mpc = "Block"
    /\ pc = "returned"
    /\ pending_transactions' = <<>>
    /\ mpc' = "appended"
    /\ UNCHANGED <<chain, lastOp, ret, added, tampers, standalone,
                   lists, late, successes>>

\* line 131: self.chain.append(new_block), once Block(...) has returned
MineAppend ==
    /\ mpc = "Block"
    /\ pc = "returned"
    /\ chain' = Append(chain, blk[1])
    /\ mpc' = "appended"
    /\ UNCHANGED <<pending_transactions, lastOp, ret, added, tampers,
                   standalone, lists, late, successes>>

\* mutant of MineReset: the pool is left as it is
MineReset_KeepsPool ==
    /\ mpc = "appended"
    /\ pending_transactions' = pending_transactions
    /\ mpc' = "idle"
    /\ lastOp' = "mine_pending_transactions"
    /\ ret' = "True"
    /\ successes' = successes + 1
    /\ UNCHANGED <<chain, added, tampers, standalone, lists, late>>

\* lines 132-133: self.pending_transactions = []; return True
MineReset ==
    /\ mpc = "appended"
    /\ pending_transactions' = <<>>
    /\ mpc' = "idle"
    /\ lastOp' = "mine_pending_transactions"
    /\ ret' = "True"
    /\ successes' = successes + 1
    /\ UNCHANGED <<chain, added, tampers, standalone, lists, late>>

NextSteps ==
    \/ \E transaction \in Records : add_transaction(transaction)
    \/ ValidateChain
    \/ (mpc = "idle" /\ MineEmptyPool)
    \/ \E now \in NowOrHard : MineCall(now)
    \/ MineFirstHash
    \/ MineIterate
    \/ MineReturn
    \/ MineAppend
    \/ MineReset

SpecSteps == Init /\ [][NextSteps]_vars

\* a call in progress goes on to its next statement
SpecStepsFair ==
    /\ SpecSteps
    /\ WF_vars(MineFirstHash)
    /\ WF_vars(MineIterate)
    /\ WF_vars(MineReturn)
    /\ WF_vars(MineAppend)
    /\ WF_vars(MineReset)

---------------------------------------------------------------------------
(* The Blockchain with its lists as objects: a name is bound to a list, an *)
(* append changes the list for every name bound to it. self.chain of the   *)
(* code is the chain as the objects show it.                               *)

\* the blocks c with each transactions attribute read from the list it is
\* bound to
View(c, h, ids) ==
    [i \in 1..Len(c) |-> [c[i] EXCEPT !.transactions = h[ids[i]]]]

\* add_transaction: self.pending_transactions.append(transaction)
add_transaction_on_heap(transaction) ==
    /\ Len(added) < MaxAdds
    /\ heap' = [heap EXCEPT ![pool_id] = Append(@, transaction)]
    /\ pending_transactions' = heap'[pool_id]
    /\ chain' = View(chain, heap', tx_ids)
    /\ added' = Append(added, transaction)
    /\ lastOp' = "add_transaction"
    /\ ret' = "None"
    /\ UNCHANGED <<tampers, standalone, pool_id, tx_ids, mpc, late, successes>>

\* mutant of MineBlockOnHeap: the block keeps the caller's list
\* (self.transactions = transactions) and the pool is emptied in place
\* (self.pending_transactions.clear())
MineBlockOnHeap_SharesList(now) ==
    /\ pending_transactions # <<>>
    /\ Len(chain) > 0
    /\ LET b == Block(Len(chain), now, heap[pool_id], chain[Len(chain)].hash)
       IN  /\ heap' = [heap EXCEPT ![pool_id] = <<>>]
           /\ tx_ids' = Append(tx_ids, pool_id)
           /\ pool_id' = pool_id
           /\ chain' = View(Append(chain, b), heap', tx_ids')
           /\ pending_transactions' = heap'[pool_id']
    /\ lastOp' = "mine_pending_transactions"
    /\ ret' = "True"
    /\ successes' = successes + 1
    /\ UNCHANGED <<added, tampers, standalone, mpc, late>>

\* mine_pending_transactions, the pool not empty: Block.__init__ binds
\* self.transactions to transactions.copy(), a new list; the block is
\* appended; self.pending_transactions is bound to [], another new list
MineBlockOnHeap(now) ==
    /\ pending_transactions # <<>>
    /\ Len(chain) > 0
    /\ LET b == Block(Len(chain), now, heap[pool_id], chain[Len(chain)].hash)
       IN  /\ heap' = heap \o <<heap[pool_id], <<>>>>
           /\ tx_ids' = Append(tx_ids, Len(heap) + 1)
           /\ pool_id' = Len(heap) + 2
           /\ chain' = View(Append(chain, b), heap', tx_ids')
           /\ pending_transactions' = heap'[pool_id']
    /\ lastOp' = "mine_pending_transactions"
    /\ ret' = "True"
    /\ successes' = successes + 1
    /\ UNCHANGED <<added, tampers, standalone, mpc, late>>

NextAlias ==
    \/ \E transaction \in Records : add_transaction_on_heap(transaction)
    \/ MineEmptyPool
    \/ \E now \in Now : MineBlockOnHeap(now)
    \/ ValidateChain

SpecAlias == Init /\ [][NextAlias]_vars

---------------------------------------------------------------------------
(* Properties *)

\* the block invariant: the stored hash is the digest of the block's
\* current fields and starts with "00"
BlockInvariant(b) == b.hash = calculate_hash(b) /\ StartsWith00(b.hash)

\* C1: after Blockchain() and any sequence of add_transaction and
\* mine_pending_transactions calls, validate_chain() returns True.
C1_ConstructedChainValidates ==
    /\ validate_chain(chain) = "True"
    /\ lastOp = "validate_chain" => ret = "True"

C1_Witness ==
    /\ lastOp = "validate_chain"
    /\ ret = "True"
    /\ Len(chain) >= 3

\* the four fields C2 names
C2Fields == {"transactions", "nonce", "previous_hash", "timestamp"}

\* exactly one direct mutation has happened: one of the four fields of a
\* block at position >= 1 was given a different value, and nothing was
\* re-mined
OneFieldTampered ==
    /\ Len(tampers) = 1
    /\ tampers[1][1] \in C2Fields
    /\ tampers[1][2] >= 1

\* C2: changing one of transactions, nonce, previous_hash, timestamp of a
\* block at position >= 1 to a different value, without re-mining, makes
\* validate_chain() return False.
C2_FieldTamperDetected ==
    (lastOp = "validate_chain" /\ OneFieldTampered) => ret = "False"

\* C3: mine_pending_transactions() on an empty pool returns False and
\* leaves the chain and the pool unchanged.
C3_EmptyPoolMineIsNoOp ==
    [][(lastOp' = "mine_pending_transactions" /\ pending_transactions = <<>>)
        => /\ ret' = "False"
           /\ chain' = chain
           /\ pending_transactions' = pending_transactions]_vars

C3_Witness ==
    /\ lastOp = "mine_pending_transactions"
    /\ ret = "False"
    /\ pending_transactions = <<>>
    /\ Len(chain) >= 2

\* C4: mine_pending_transactions() on a non-empty pool returns True and
\* appends exactly one block, whose transactions are the pool in order,
\* whose previous_hash is the hash of the block that was last and whose
\* index is the chain length before the call; the pool is empty afterwards.
C4_MineAppendsPoolBlock ==
    [][(lastOp' = "mine_pending_transactions" /\ pending_transactions # <<>>)
        => /\ ret' = "True"
           /\ Len(chain') = Len(chain) + 1
           /\ SubSeq(chain', 1, Len(chain)) = chain
           /\ chain'[Len(chain')].transactions = pending_transactions
           /\ chain'[Len(chain')].previous_hash = chain[Len(chain)].hash
           /\ chain'[Len(chain')].index = Len(chain)
           /\ pending_transactions' = <<>>]_vars

C4_Witness ==
    /\ lastOp = "mine_pending_transactions"
    /\ ret = "True"
    /\ Len(chain) >= 2
    /\ Len(chain[Len(chain)].transactions) >= 2
    /\ chain[Len(chain)].transactions[1] # chain[Len(chain)].transactions[2]
    /\ pending_transactions = <<>>

\* the condition C5 gives for validate_chain() to return True
WellFormed(c) ==
    /\ Len(c) >= 1
    /\ c[1].index = 0
    /\ c[1].previous_hash = Zero
    /\ BlockInvariant(c[1])
    /\ \A i \in 2..Len(c) :
          BlockInvariant(c[i]) /\ c[i].previous_hash = c[i-1].hash

\* C5: validate_chain() returns True exactly when the genesis block has
\* index 0, previous_hash "0" and the block invariant, and every later
\* block has the block invariant and links to the stored hash of its
\* predecessor; in every other case it returns False.
C5_ValidateIffWellFormed ==
    lastOp = "validate_chain"
        => ret = (IF WellFormed(chain) THEN "True" ELSE "False")

\* what validate_chain() does do: the equivalence on every chain that has
\* a block, under any direct mutation
ValidateIffWellFormedNonEmpty ==
    (lastOp = "validate_chain" /\ Len(chain) >= 1)
        => ret = (IF WellFormed(chain) THEN "True" ELSE "False")

\* C6: validate_chain() on an empty chain returns False.
C6_EmptyChainReturnsFalse ==
    (lastOp = "validate_chain" /\ chain = <<>>) => ret = "False"

\* C7: every block that construction returned, genesis or mined, has the
\* block invariant: its stored hash is the digest of its index, timestamp,
\* transactions, previous_hash and final nonce, and starts with "00".
C7_ConstructedBlockInvariant ==
    \A i \in 1..Len(chain) : BlockInvariant(chain[i])

C7_Witness ==
    \E i \in 2..Len(chain) : chain[i].nonce >= 2 /\ chain[1].nonce >= 1

\* C8: the chain starts with exactly one block; no Ledger operation makes
\* it shorter, and every block in it stays where it is with all six
\* fields unchanged.
C8_AppendOnly ==
    /\ Len(chain) = 1
    /\ [][/\ Len(chain') >= Len(chain)
          /\ SubSeq(chain', 1, Len(chain)) = chain]_vars

C8_Witness ==
    /\ Len(chain) >= 3
    /\ chain[2].transactions = <<"a">>
    /\ lastOp = "mine_pending_transactions"
    /\ ret = "True"

\* C9: chain[0] is the genesis block (index 0, previous_hash "0", no
\* transactions), and every block at position i >= 1 has previous_hash
\* equal to the hash of the block at i-1 and index i.
C9_ChainLinkage ==
    /\ Len(chain) >= 1
    /\ chain[1].index = 0
    /\ chain[1].previous_hash = Zero
    /\ chain[1].transactions = <<>>
    /\ \A i \in 2..Len(chain) :
          /\ chain[i].previous_hash = chain[i-1].hash
          /\ chain[i].index = i - 1

C9_Witness ==
    /\ Len(chain) >= 3
    /\ chain[3].previous_hash = chain[2].hash
    /\ chain[3].index = 2

\* the blocks whose construction has returned: those of the chain and those
\* callers constructed on their own
Constructed ==
    {chain[i] : i \in 1..Len(chain)}
        \cup {earlier[i] : i \in 1..Len(earlier)}
        \cup (IF pc = "returned" THEN {blk[1]} ELSE {})

\* C10: two Block constructions with the same index, timestamp,
\* transactions and previous_hash end with the same nonce and the same
\* hash, whatever the state of the Blockchain at each.
C10_MiningDeterministic ==
    \A x \in Constructed : \A y \in Constructed :
        ArgsOf(x) = ArgsOf(y) => (x.nonce = y.nonce /\ x.hash = y.hash)

C10_Witness ==
    /\ pc = "returned"
    /\ earlier # <<>>
    /\ ArgsOf(earlier[1]) = ArgsOf(blk[1])
    /\ \E i \in 2..Len(chain) :
          ArgsOf(chain[i]) = ArgsOf(blk[1]) /\ chain[i].nonce >= 1

\* C11: the transactions of a sealed block are not the list of the pending
\* pool: an add_transaction after a successful mine_pending_transactions
\* changes no field of any block of the chain, and validate_chain() stays
\* True.
C11_SealedBlocksNotAliased ==
    [][/\ \A i \in 1..Len(tx_ids') : tx_ids'[i] # pool_id'
       /\ lastOp' = "add_transaction"
            => (chain' = chain /\ validate_chain(chain') = "True")]_vars

C11_Witness ==
    /\ lastOp = "add_transaction"
    /\ Len(chain) >= 2
    /\ chain[2].transactions = <<"a">>
    /\ pending_transactions = <<"b">>
    /\ validate_chain(chain) = "True"

RECURSIVE Flatten(_)
\* the transactions of the blocks of c, one after the other
Flatten(c) ==
    IF c = <<>> THEN <<>> ELSE c[1].transactions \o Flatten(Tail(c))

\* C12: add_transaction appends the record at the end of the pool and
\* changes nothing else; the pool becomes empty only by a
\* mine_pending_transactions that returns True; and the transactions of the
\* blocks in chain order, followed by the pool, are the records passed to
\* add_transaction in call order.
C12_NoRecordLostOrReordered ==
    /\ [](Flatten(chain) \o pending_transactions = added)
    /\ [][/\ lastOp' = "add_transaction"
             => /\ Len(added') = Len(added) + 1
                /\ pending_transactions' =
                       Append(pending_transactions, added'[Len(added')])
                /\ chain' = chain
          /\ (pending_transactions # <<>> /\ pending_transactions' = <<>>)
             => (lastOp' = "mine_pending_transactions" /\ ret' = "True")]_vars

C12_Witness ==
    /\ added = <<"a", "b">>
    /\ Len(chain) = 2
    /\ chain[2].transactions = <<"a">>
    /\ pending_transactions = <<"b">>

\* the digest of block b's fields with nonce n starts with "00"
Solves(b, n) == StartsWith00(calculate_hash([b EXCEPT !.nonce = n]))

\* C13: the miner starts at nonce 0 and adds 1 per failed attempt, so the
\* nonce of a constructed block is the least n >= 0 for which the hash of
\* (index, timestamp, transactions, previous_hash, n) starts with "00".
C13_LeastNonce ==
    /\ [](/\ \A b \in Constructed :
                /\ Solves(b, b.nonce)
                /\ \A n \in 0..(b.nonce - 1) : ~Solves(b, n)
          /\ pc = "mine_block" => blk[1].nonce = 0)
    /\ [][(pc = "while" /\ blk' # blk)
            => /\ ~StartsWith00(blk[1].hash)
               /\ blk'[1].nonce = blk[1].nonce + 1]_vars

C13_Witness ==
    /\ pc = "returned"
    /\ blk[1].nonce >= 2
    /\ Solves(blk[1], blk[1].nonce)
    /\ ~Solves(blk[1], 0) /\ ~Solves(blk[1], 1)

\* some nonce the search reaches gives block b a hash that starts with "00"
Solvable(b) == \E n \in 0..MaxNonce : Solves(b, n)

\* C14: mine_block never returns a failure: what it returns is a hash that
\* starts with "00"; it returns eventually whenever some nonce gives such a
\* hash; and when none does it goes on without returning and without a
\* block being appended.
C14_MiningReturnsOnlySuccess ==
    /\ [](pc = "returned"
            => /\ StartsWith00(blk[1].hash)
               /\ blk[1].hash = calculate_hash(blk[1]))
    /\ []((mpc = "Block" /\ ~Solvable(blk[1]))
            => /\ pc # "returned"
               /\ Len(chain) = blk[1].index
               /\ \A i \in 1..Len(chain) : ArgsOf(chain[i]) # ArgsOf(blk[1]))
    /\ [][(blk # <<>> /\ mpc = "Block" /\ ~Solvable(blk[1]))
            => (mpc' = "Block" /\ chain' = chain)]_vars
    /\ ((pc = "mine_block" /\ Solvable(blk[1])) ~> (pc = "returned"))

C14_Witness ==
    /\ pc = "returned"
    /\ blk[1].nonce >= 2
    /\ mpc = "idle"
    /\ chain[Len(chain)] = blk[1]

\* the case of C14 in which no nonce solves: the search has gone as far as
\* the model follows it
C14_WitnessUnsolvable ==
    /\ mpc = "Block"
    /\ pc = "while"
    /\ ~Solvable(blk[1])
    /\ blk[1].nonce = MaxNonce

\* C15: within mine_pending_transactions the nonce search completes, then
\* the block is appended, then the pool is cleared: the search writes
\* neither the chain nor the pool, and in no state is the pool emptied
\* while the new block is not in the chain.
C15_SearchAppendClear ==
    /\ []((mpc # "idle" /\ pending_transactions = <<>>)
            => chain[Len(chain)] = blk[1])
    /\ [](mpc = "Block" => Len(chain) = blk[1].index)
    /\ [][/\ (mpc = "Block" /\ (blk' # blk \/ pc' # pc))
             => (chain' = chain /\ pending_transactions' = pending_transactions)
          /\ chain' # chain
             => /\ mpc = "Block" /\ pc = "returned" /\ mpc' = "appended"
                /\ chain' = Append(chain, blk[1])
                /\ pending_transactions' = pending_transactions
          /\ (pending_transactions # <<>> /\ pending_transactions' = <<>>)
             => /\ mpc = "appended" /\ mpc' = "idle"
                /\ chain[Len(chain)] = blk[1]
                /\ chain' = chain]_vars

C15_Witness ==
    /\ mpc = "appended"
    /\ chain[Len(chain)] = blk[1]
    /\ blk[1].nonce >= 1
    /\ pending_transactions = blk[1].transactions

RECURSIVE Count(_, _)
\* how many times record r occurs in sequence q
Count(r, q) ==
    IF q = <<>> THEN 0
    ELSE (IF Head(q) = r THEN 1 ELSE 0) + Count(r, Tail(q))

\* the records the Blockchain holds: those of the blocks, then the pool
Stored == Flatten(chain) \o pending_transactions

\* C18: with add_transaction calls of a second caller between the steps of
\* a mine_pending_transactions call, every record added is in a block of
\* the chain or in the pool once mining has returned.
C18_NoAddedRecordLost ==
    mpc = "idle" => \A r \in Records : Count(r, added) <= Count(r, Stored)

\* C18 as amended: once mining has returned, the records held are those
\* added, less the ones added between the pool copy and the pool reset of
\* a call in progress, which are neither in a block nor in the pool.
C18_OnlyLateRecordsLost ==
    mpc = "idle"
        => \A r \in Records :
              Count(r, Stored) + Count(r, late) = Count(r, added)

C18_Witness ==
    /\ mpc = "idle"
    /\ lastOp = "mine_pending_transactions"
    /\ ret = "True"
    /\ added = <<"a", "b">>
    /\ late = <<"b">>
    /\ Stored = <<"a">>

\* C16: validate_chain() changes no field of any block, not the chain and
\* not the pool, so a validate_chain() call right after another returns
\* what the first returned.
C16_ValidateReadOnly ==
    [][lastOp' = "validate_chain"
        => /\ chain' = chain
           /\ pending_transactions' = pending_transactions
           /\ lastOp = "validate_chain" => ret' = ret]_vars

C16_Witness ==
    /\ lastOp = "validate_chain"
    /\ ret = "False"
    /\ Len(chain) >= 2
    /\ ~BlockInvariant(chain[2])

\* C17: after the transactions of a block at position i, 1 <= i <
\* len(chain) - 1, were changed and mine_block was re-run on that block
\* alone, its stored hash is consistent, starts with "00" and differs from
\* before, and validate_chain() returns False because the next block's
\* previous_hash is no longer that hash; and swapping two blocks after the
\* genesis block of a constructed chain makes validate_chain() return False.
C17_RemineAndSwapDetected ==
    [][/\ \A i \in 1..(Len(chain) - 2) :
             (/\ tampers = <<<<"transactions", i>>>>
              /\ tampers' = Append(tampers, <<"mine_block", i>>))
             => /\ BlockInvariant(chain'[i + 1])
                /\ chain'[i + 1].hash # chain[i + 1].hash
                /\ chain'[i + 2].previous_hash # chain'[i + 1].hash
                /\ validate_chain(chain') = "False"
       /\ (tampers = <<>> /\ Len(tampers') = 1 /\ tampers'[1][1] = "swap")
             => validate_chain(chain') = "False"]_vars

C17_Witness ==
    /\ tampers = <<<<"transactions", 1>>, <<"mine_block", 1>>>>
    /\ Len(chain) = 3
    /\ BlockInvariant(chain[2])
    /\ chain[3].previous_hash # chain[2].hash
    /\ lastOp = "validate_chain"
    /\ ret = "False"

\* the other case of C17: two blocks swapped, then validated
C17_WitnessSwap ==
    /\ tampers = <<<<"swap", 1>>>>
    /\ lastOp = "validate_chain"
    /\ ret = "False"

\* C19: the genesis block is the only block with no transactions, and the
\* chain length is 1 plus the number of mine_pending_transactions calls
\* that returned True.
C19_OnlyGenesisEmpty ==
    /\ Len(chain) >= 1
    /\ chain[1].transactions = <<>>
    /\ \A i \in 2..Len(chain) : chain[i].transactions # <<>>
    /\ Len(chain) = 1 + successes

C19_Witness ==
    /\ Len(chain) = 3
    /\ successes = 2
    /\ lastOp = "mine_pending_transactions"
    /\ ret = "False"

=============================================================================
